---- MODULE Spec2Model ----
(***************************************************************************)
(* Model of src/demos/tutorialHybrid.ts: the '/api/messages' turn handler, *)
(* the OnSessionStart / OnSessionEnd callbacks, the module-level `state`   *)
(* binding and the BotStateSet middleware that loads and saves the         *)
(* per-conversation state around each turn.                                *)
(*                                                                         *)
(* JavaScript runs a task without interruption up to its next `await`, so  *)
(* every action below is one such run-to-suspension segment of the code.   *)
(* The ConversationLearner engine, the channel adapter and the storage are *)
(* the environment: their outcomes are nondeterministic choices.           *)
(***************************************************************************)
EXTENDS Integers, Sequences, FiniteSets, TLC

\* ---------------------------------------------------------------- bounds
\* The engine invokes at most MaxHooks session callbacks inside one call.
MaxHooks == 1

\* ------------------------------------------------------- value universes
\* Concurrent tasks of adapter.processActivity (one per inbound request).
Turns == {"t1", "t2"}
\* Conversation keys of the ConversationState store.
Convs == {"c1", "c2"}

\* JavaScript values, encoded as strings: `undefined`, `null`, booleans.
Undefined == "undefined"
JsNull == "null"
JsTrue == "true"
JsFalse == "false"

\* context.activity.type
ActivityTypes == {"message", "conversationUpdate"}
\* context.activity.text (the four commands, a case variant, any other text)
Texts == {"open store", "close store", "shop", "history", "Shop", "hello"}
\* What memoryManager.PrevEntityValue("purchaseItem") can return: string | null
EntityValues == {JsNull, "", "apple", "pear"}
\* SessionEndState
SessionEndStates == {"COMPLETED", "OPEN"}
COMPLETED == "COMPLETED"

\* No OnSessionEndCallback is suspended in the task.
NoHook == "none"

\* No session of the conversation has completed yet.
NoResult == "no result"

\* A state object as BotStateSet creates it for a new conversation: {}
EmptyState ==
    [usingConversationLearner |-> Undefined,
     storeIsOpen |-> Undefined,
     purchasedItem |-> Undefined]

\* The turn context of an idle task slot.
NoContext ==
    [conv |-> "c1", type |-> "message", text |-> "hello", training |-> FALSE]

VARIABLES
    storage,   \* BB.MemoryStorage: conversation key -> persisted state object
    pc,        \* position of each task
    ctx,       \* the TurnContext of each task
    cached,    \* whether the context holds a state object (convoState.get)
    rec,       \* the state object cached on the context
    loaded,    \* the state object as read by the middleware (change detection)
    state,     \* the module-level `let state` binding: whose object it refers to
    hook,      \* OnSessionEndCallback suspended at its await: the entity value
    log,       \* calls made during the turn, in order
    mem,       \* engine memory of each conversation: the "isOpen" entity
    session,   \* per conversation: a StartSession succeeded, no session end since
    lastResult \* per conversation: the entity value of the last completed session end

vars == <<storage, pc, ctx, cached, rec, loaded, state, hook, log, mem, session, lastResult>>

\* JavaScript truthiness of the encoded values.
Truthy(v) == v \notin {Undefined, JsNull, JsFalse, ""}

\* One entry of a turn's log.
Ev(op, arg) == [op |-> op, arg |-> arg]

\* Number of entries of a log with the given operation.
RECURSIVE CountOp(_, _)
CountOp(l, op) ==
    IF l = <<>> THEN 0
    ELSE (IF Head(l).op = op THEN 1 ELSE 0) + CountOp(Tail(l), op)

\* The messages sent during a turn, in order.
RECURSIVE Sent(_)
Sent(l) ==
    IF l = <<>> THEN <<>>
    ELSE (IF Head(l).op = "sendActivity" THEN <<Head(l).arg>> ELSE <<>>) \o Sent(Tail(l))

HooksRun(l) == CountOp(l, "OnSessionStart") + CountOp(l, "OnSessionEnd")

\* ------------------------------------------------------------- messages
MsgOpen == "Store is OPEN!"
MsgClosed == "Store is CLOSED!"
MsgShop == "Let's shop!"
MsgHelp == "You can: \"open store\", \"close store\", \"shop\", \"history\""
MsgThanks == "Thanks for shopping."
MsgResult == "<engine result>"

\* Mutant: the reply interpolates the field without the truthiness test.
HistoryReply_NoDefault(s) == "You bought " \o s.purchasedItem

\* `You bought ${state.purchasedItem ? state.purchasedItem : "nothing"}`
HistoryReply(s) ==
    "You bought " \o (IF Truthy(s.purchasedItem) THEN s.purchasedItem ELSE "nothing")

Init ==
    /\ storage = [c \in Convs |-> EmptyState]
    /\ pc = [t \in Turns |-> "idle"]
    /\ ctx = [t \in Turns |-> NoContext]
    /\ cached = [t \in Turns |-> FALSE]
    /\ rec = [t \in Turns |-> EmptyState]
    /\ loaded = [t \in Turns |-> EmptyState]
    /\ state = JsNull
    /\ hook = [t \in Turns |-> NoHook]
    /\ log = [t \in Turns |-> <<>>]
    /\ mem = [c \in Convs |-> Undefined]
    /\ session = [c \in Convs |-> FALSE]
    /\ lastResult = [c \in Convs |-> NoResult]

\* ------------------------------------------------------------ middleware
\* A task slot returns to idle: its context and state object are dropped.
Release(t) ==
    /\ pc' = [pc EXCEPT ![t] = "idle"]
    /\ ctx' = [ctx EXCEPT ![t] = NoContext]
    /\ cached' = [cached EXCEPT ![t] = FALSE]
    /\ rec' = [rec EXCEPT ![t] = EmptyState]
    /\ loaded' = [loaded EXCEPT ![t] = EmptyState]
    /\ log' = [log EXCEPT ![t] = <<>>]

\* adapter.processActivity with the BotStateSet middleware: the state of the
\* conversation is read from storage (created as {} when absent) and cached
\* on the context before the handler runs. `avail` is whether the context
\* ends up holding a state object.
ProcessActivity(t, c, ty, tx, tr, avail) ==
    /\ pc[t] = "idle"
    /\ pc' = [pc EXCEPT ![t] = "handler"]
    /\ ctx' = [ctx EXCEPT ![t] = [conv |-> c, type |-> ty, text |-> tx, training |-> tr]]
    /\ cached' = [cached EXCEPT ![t] = avail]
    /\ rec' = [rec EXCEPT ![t] = IF avail THEN storage[c] ELSE EmptyState]
    /\ loaded' = [loaded EXCEPT ![t] = IF avail THEN storage[c] ELSE EmptyState]
    /\ UNCHANGED <<storage, state, hook, log, mem, session, lastResult>>

\* The engine's own route (server.use('/sdk', sdkRouter)): the engine runs
\* session callbacks with a context that went through no state middleware.
SdkRoute(t, c) ==
    /\ pc[t] = "idle"
    /\ pc' = [pc EXCEPT ![t] = "sdk"]
    /\ ctx' = [ctx EXCEPT ![t] = [NoContext EXCEPT !.conv = c, !.training = TRUE]]
    /\ UNCHANGED <<storage, cached, rec, loaded, state, hook, log, mem, session, lastResult>>

SdkDone(t) ==
    /\ pc[t] = "sdk"
    /\ hook[t] = NoHook
    /\ Release(t)
    /\ UNCHANGED <<storage, state, hook, mem, session, lastResult>>

\* Mutant: the write is dropped when the stored record is no longer the one
\* that was read.
SaveChanges_IfUnmodified(t) ==
    /\ pc[t] = "save"
    /\ storage' = IF rec[t] # loaded[t] /\ storage[ctx[t].conv] = loaded[t]
                  THEN [storage EXCEPT ![ctx[t].conv] = rec[t]]
                  ELSE storage
    /\ Release(t)
    /\ UNCHANGED <<state, hook, mem, session, lastResult>>

\* The handler returned: BotStateSet writes the state object back when it
\* differs from what was read.
SaveChanges(t) ==
    /\ pc[t] = "save"
    /\ storage' = IF rec[t] # loaded[t]
                  THEN [storage EXCEPT ![ctx[t].conv] = rec[t]]
                  ELSE storage
    /\ Release(t)
    /\ UNCHANGED <<state, hook, mem, session, lastResult>>

\* The handler threw: processActivity rejects and nothing is written.
Reject(t) ==
    /\ pc[t] = "failed"
    /\ Release(t)
    /\ UNCHANGED <<storage, state, hook, mem, session, lastResult>>

\* --------------------------------------------------------- turn handler
\* What one run of the handler up to its first await does: the new content
\* of the state object, the calls made, and where the task is suspended.
Effect(s, calls, next) == [st |-> s, calls |-> calls, next |-> next]

\* cl.inTrainingUI(context)
inTrainingUI(c) == c.training

\* let result = await cl.recognize(context)
Recognize(s) == Effect(s, <<Ev("recognize", "")>>, "recognize")

\* Mutant: the command forgets to start the session.
Shop_NoStartSession(s) ==
    Effect([s EXCEPT !.usingConversationLearner = JsTrue],
           <<Ev("sendActivity", "Let's shop!")>>, "send")

\* Mutant: 'close store' copied from 'open store' without flipping the value.
CloseStore_SetsTrue(s) ==
    Effect([s EXCEPT !.storeIsOpen = JsTrue],
           <<Ev("sendActivity", "Store is CLOSED!")>>, "send")

\* Mutant: the confirmation is sent before the session is started.
Shop_ConfirmFirst(s) ==
    Effect([s EXCEPT !.usingConversationLearner = JsTrue],
           <<Ev("sendActivity", "Let's shop!"), Ev("StartSession", "")>>, "startSession")

OpenStore(s) ==
    Effect([s EXCEPT !.storeIsOpen = JsTrue], <<Ev("sendActivity", MsgOpen)>>, "send")

CloseStore(s) ==
    Effect([s EXCEPT !.storeIsOpen = JsFalse], <<Ev("sendActivity", MsgClosed)>>, "send")

Shop(s) ==
    Effect([s EXCEPT !.usingConversationLearner = JsTrue],
           <<Ev("StartSession", "")>>, "startSession")

History(s) == Effect(s, <<Ev("sendActivity", HistoryReply(s))>>, "send")

Help(s) == Effect(s, <<Ev("sendActivity", MsgHelp)>>, "send")

\* Mutant: the comparisons ignore case.
LocalCommand_IgnoreCase(text, s) ==
    LET lower == IF text = "Shop" THEN "shop" ELSE text IN
    IF lower = "open store" THEN OpenStore(s)
    ELSE IF lower = "close store" THEN CloseStore(s)
    ELSE IF lower = "shop" THEN Shop(s)
    ELSE IF lower = "history" THEN History(s)
    ELSE Help(s)

\* The chain of `context.activity.text === ...` comparisons.
LocalCommand(text, s) ==
    IF text = "open store" THEN OpenStore(s)
    ELSE IF text = "close store" THEN CloseStore(s)
    ELSE IF text = "shop" THEN Shop(s)
    ELSE IF text = "history" THEN History(s)
    ELSE Help(s)

\* Mutant: the training-surface branch is missing.
Dispatch_NoTrainingBranch(c, s) ==
    IF Truthy(s.usingConversationLearner) THEN Recognize(s)
    ELSE IF c.type = "message" THEN LocalCommand(c.text, s)
    ELSE Effect(s, <<>>, "save")

\* Mutant: the usingConversationLearner branch is missing.
Dispatch_NoDelegateBranch(c, s) ==
    IF inTrainingUI(c) THEN Recognize(s)
    ELSE IF c.type = "message" THEN LocalCommand(c.text, s)
    ELSE Effect(s, <<>>, "save")

\* Mutant: the activity type is not tested before local dispatch.
Dispatch_NoTypeCheck(c, s) ==
    IF inTrainingUI(c) THEN Recognize(s)
    ELSE IF Truthy(s.usingConversationLearner) THEN Recognize(s)
    ELSE LocalCommand(c.text, s)

\* Mutant: the four commands are matched before the flag is tested.
Dispatch_CommandsFirst(c, s) ==
    IF inTrainingUI(c) THEN Recognize(s)
    ELSE IF c.type = "message" /\ c.text \in {"open store", "close store", "shop", "history"}
         THEN LocalCommand(c.text, s)
    ELSE IF Truthy(s.usingConversationLearner) THEN Recognize(s)
    ELSE IF c.type = "message" THEN LocalCommand(c.text, s)
    ELSE Effect(s, <<>>, "save")

\* The if / else if / else of the handler.
Dispatch(c, s) ==
    IF inTrainingUI(c) THEN Recognize(s)
    ELSE IF Truthy(s.usingConversationLearner) THEN Recognize(s)
    ELSE IF c.type = "message" THEN LocalCommand(c.text, s)
    ELSE Effect(s, <<>>, "save")

\* convoState.get(context): the object cached on the context, or undefined.
\* The result is a reference: the task whose context holds the object.
convoState_get(t) == IF cached[t] THEN t ELSE Undefined

\* Mutant: the state check is missing.
StateUnavailable_Never(ref) == FALSE

\* if (!state) throw ('Error Getting State')
StateUnavailable(ref) == ref = Undefined

\* The handler after the state check, up to its first await. Reading a field
\* of an undefined `state` is a TypeError, which the training branch does
\* not reach.
Run(c, ref, obj) ==
    IF ref # Undefined THEN Dispatch(c, obj)
    ELSE IF inTrainingUI(c) THEN Recognize(obj)
    ELSE Effect(obj, <<>>, "failed")

\* The handler from its entry to its first await. The state object is read
\* and written through the module-level `state` binding.
Handler(t) ==
    /\ pc[t] = "handler"
    /\ state' = convoState_get(t)
    /\ IF StateUnavailable(state')
       THEN /\ pc' = [pc EXCEPT ![t] = "failed"]
            /\ UNCHANGED <<rec, log>>
       ELSE LET owner == IF state' = Undefined THEN t ELSE state'
                e == Run(ctx[t], state', rec[owner]) IN
            /\ rec' = [rec EXCEPT ![owner] = e.st]
            /\ log' = [log EXCEPT ![t] = log[t] \o e.calls]
            /\ pc' = [pc EXCEPT ![t] = e.next]
    /\ UNCHANGED <<storage, ctx, cached, loaded, hook, mem, session, lastResult>>

\* await context.sendActivity(...) of a local command resolved: the handler
\* returns.
SendDone(t) ==
    /\ pc[t] = "send"
    /\ pc' = [pc EXCEPT ![t] = "save"]
    /\ UNCHANGED <<storage, ctx, cached, rec, loaded, state, hook, log, mem, session, lastResult>>

\* await context.sendActivity(...) rejected: the handler throws.
SendFail(t) ==
    /\ pc[t] = "send"
    /\ pc' = [pc EXCEPT ![t] = "failed"]
    /\ UNCHANGED <<storage, ctx, cached, rec, loaded, state, hook, log, mem, session, lastResult>>

\* ------------------------------------------------------ session callbacks
\* Mutant: the callback copies the field whenever there is a state object.
RememberIsOpen_Unconditional(hasState, s, before) ==
    IF hasState THEN s.storeIsOpen ELSE before

\* cl.OnSessionStartCallback: what the "isOpen" entity holds after the
\* callback, given what it held before.
\*   if (state && state.storeIsOpen) memoryManager.RememberEntity("isOpen", ...)
RememberIsOpen(hasState, s, before) ==
    IF hasState /\ Truthy(s.storeIsOpen) THEN s.storeIsOpen ELSE before

\* The value of state.storeIsOpen the callback reads.
Observed(t) == IF cached[t] THEN rec[t].storeIsOpen ELSE "no state"

\* Mutant: the callback consumes the flag it copies.
OnSessionStartCallback_Writes(t) ==
    /\ mem' = [mem EXCEPT ![ctx[t].conv] = RememberIsOpen(cached[t], rec[t], @)]
    /\ log' = [log EXCEPT ![t] = Append(@, Ev("OnSessionStart", Observed(t)))]
    /\ rec' = [rec EXCEPT ![t].storeIsOpen = Undefined]
    /\ UNCHANGED storage

OnSessionStartCallback(t) ==
    /\ mem' = [mem EXCEPT ![ctx[t].conv] = RememberIsOpen(cached[t], rec[t], @)]
    /\ log' = [log EXCEPT ![t] = Append(@, Ev("OnSessionStart", Observed(t)))]
    /\ UNCHANGED <<storage, rec>>

\* Mutant: the reset of usingConversationLearner sits inside the COMPLETED branch.
OnSessionEndCallback_ResetOnlyCompleted(t, sessionEndState, v) ==
    IF ~cached[t]
    THEN /\ log' = [log EXCEPT ![t] = @ \o <<Ev("OnSessionEnd", sessionEndState),
                                            Ev("OnSessionEndThrow", "no state")>>]
         /\ UNCHANGED <<rec, hook>>
    ELSE IF sessionEndState = COMPLETED
         THEN /\ rec' = [rec EXCEPT ![t].usingConversationLearner = JsFalse]
              /\ log' = [log EXCEPT ![t] = @ \o <<Ev("OnSessionEnd", sessionEndState),
                                                 Ev("sendActivity", "Thanks for shopping.")>>]
              /\ hook' = [hook EXCEPT ![t] = v]
         ELSE /\ log' = [log EXCEPT ![t] = @ \o <<Ev("OnSessionEnd", sessionEndState),
                                                 Ev("OnSessionEndReturn", "")>>]
              /\ UNCHANGED <<rec, hook>>

\* Mutant: in the COMPLETED branch the reset is placed after the awaited send.
OnSessionEndCallback_ResetAfterSend(t, sessionEndState, v) ==
    IF ~cached[t]
    THEN /\ log' = [log EXCEPT ![t] = @ \o <<Ev("OnSessionEnd", sessionEndState),
                                            Ev("OnSessionEndThrow", "no state")>>]
         /\ UNCHANGED <<rec, hook>>
    ELSE IF sessionEndState = COMPLETED
         THEN /\ log' = [log EXCEPT ![t] = @ \o <<Ev("OnSessionEnd", sessionEndState),
                                                 Ev("sendActivity", "Thanks for shopping.")>>]
              /\ hook' = [hook EXCEPT ![t] = v]
              /\ UNCHANGED rec
         ELSE /\ rec' = [rec EXCEPT ![t].usingConversationLearner = JsFalse]
              /\ log' = [log EXCEPT ![t] = @ \o <<Ev("OnSessionEnd", sessionEndState),
                                                 Ev("OnSessionEndReturn", "")>>]
              /\ UNCHANGED hook

\* Mutant: the state check comes after the closing acknowledgment.
OnSessionEndCallback_CheckAfterSend(t, sessionEndState, v) ==
    IF ~cached[t]
    THEN /\ log' = [log EXCEPT ![t] = @ \o <<Ev("OnSessionEnd", sessionEndState),
                                            Ev("sendActivity", "Thanks for shopping."),
                                            Ev("OnSessionEndThrow", "no state")>>]
         /\ UNCHANGED <<rec, hook>>
    ELSE /\ rec' = [rec EXCEPT ![t].usingConversationLearner = JsFalse]
         /\ IF sessionEndState = COMPLETED
            THEN /\ log' = [log EXCEPT ![t] = @ \o <<Ev("OnSessionEnd", sessionEndState),
                                                    Ev("sendActivity", "Thanks for shopping.")>>]
                 /\ hook' = [hook EXCEPT ![t] = v]
            ELSE /\ log' = [log EXCEPT ![t] = @ \o <<Ev("OnSessionEnd", sessionEndState),
                                                    Ev("OnSessionEndReturn", "")>>]
                 /\ UNCHANGED hook

\* cl.OnSessionEndCallback from its entry to its await (or to its end).
OnSessionEndCallback(t, sessionEndState, v) ==
    IF ~cached[t]
    THEN \* throw("Bot State not Initialized!")
         /\ log' = [log EXCEPT ![t] = @ \o <<Ev("OnSessionEnd", sessionEndState),
                                            Ev("OnSessionEndThrow", "no state")>>]
         /\ UNCHANGED <<rec, hook>>
    ELSE /\ rec' = [rec EXCEPT ![t].usingConversationLearner = JsFalse]
         /\ IF sessionEndState = COMPLETED
            THEN /\ log' = [log EXCEPT ![t] = @ \o <<Ev("OnSessionEnd", sessionEndState),
                                                    Ev("sendActivity", MsgThanks)>>]
                 /\ hook' = [hook EXCEPT ![t] = v]
            ELSE /\ log' = [log EXCEPT ![t] = @ \o <<Ev("OnSessionEnd", sessionEndState),
                                                    Ev("OnSessionEndReturn", "")>>]
                 /\ UNCHANGED hook

\* await context.sendActivity(`Thanks for shopping.`) resolved:
\*   state.purchasedItem = memoryManager.PrevEntityValue("purchaseItem")
OnSessionEndResume(t) ==
    /\ hook[t] # NoHook
    /\ rec' = [rec EXCEPT ![t].purchasedItem = hook[t]]
    /\ hook' = [hook EXCEPT ![t] = NoHook]
    /\ log' = [log EXCEPT ![t] = Append(@, Ev("OnSessionEndReturn", ""))]
    /\ UNCHANGED <<storage, pc, ctx, cached, loaded, state, mem, session, lastResult>>

\* await context.sendActivity(`Thanks for shopping.`) rejected: the callback
\* throws at the await.
OnSessionEndSendFail(t) ==
    /\ hook[t] # NoHook
    /\ hook' = [hook EXCEPT ![t] = NoHook]
    /\ log' = [log EXCEPT ![t] = Append(@, Ev("OnSessionEndThrow", "send"))]
    /\ UNCHANGED <<storage, pc, ctx, cached, rec, loaded, state, mem, session, lastResult>>

\* ------------------------------------------------------------ the engine
\* The engine begins a session and runs the session-start callback: once
\* inside cl.StartSession, or on its own inside recognize / its own route.
EngineStartsSession(t) ==
    /\ hook[t] = NoHook
    /\ \/ pc[t] = "startSession" /\ CountOp(log[t], "OnSessionStart") = 0
       \/ pc[t] \in {"recognize", "sdk"} /\ HooksRun(log[t]) < MaxHooks
    /\ OnSessionStartCallback(t)
    /\ UNCHANGED <<pc, ctx, cached, loaded, state, hook, session, lastResult>>

\* The engine ends the session of the conversation and runs the session-end
\* callback with the terminal classification and the previous entity value.
\* The callback returns no entities to preserve, so the memory is cleared.
EngineEndsSession(t, sessionEndState, v) ==
    /\ hook[t] = NoHook
    /\ pc[t] \in {"recognize", "sdk"}
    /\ HooksRun(log[t]) < MaxHooks
    /\ OnSessionEndCallback(t, sessionEndState, v)
    /\ mem' = [mem EXCEPT ![ctx[t].conv] = Undefined]
    /\ session' = [session EXCEPT ![ctx[t].conv] = FALSE]
    /\ lastResult' = IF cached[t] /\ sessionEndState = COMPLETED
                 THEN [lastResult EXCEPT ![ctx[t].conv] = v]
                     ELSE lastResult
    /\ UNCHANGED <<storage, pc, ctx, cached, loaded, state>>

\* Mutant: the flag is set through the module-level binding after the await.
StartSessionReturn_WritesThroughBinding(t) ==
    /\ pc[t] = "startSession"
    /\ CountOp(log[t], "OnSessionStart") = 1
    /\ session' = [session EXCEPT ![ctx[t].conv] = TRUE]
    /\ log' = [log EXCEPT ![t] = Append(@, Ev("sendActivity", MsgShop))]
    /\ pc' = [pc EXCEPT ![t] = "send"]
    /\ rec' = IF state \in Turns
              THEN [rec EXCEPT ![state].usingConversationLearner = JsTrue]
              ELSE rec
    /\ UNCHANGED <<storage, ctx, cached, loaded, state, hook, mem, lastResult>>

\* await cl.StartSession(context) resolved:
\*   await context.sendActivity(`Let's shop!`)
StartSessionReturn(t) ==
    /\ pc[t] = "startSession"
    /\ CountOp(log[t], "OnSessionStart") = 1
    /\ session' = [session EXCEPT ![ctx[t].conv] = TRUE]
    /\ log' = [log EXCEPT ![t] = Append(@, Ev("sendActivity", MsgShop))]
    /\ pc' = [pc EXCEPT ![t] = "send"]
    /\ UNCHANGED <<storage, ctx, cached, rec, loaded, state, hook, mem, lastResult>>

\* await cl.StartSession(context) rejected: the handler throws.
StartSessionFail(t) ==
    /\ pc[t] = "startSession"
    /\ pc' = [pc EXCEPT ![t] = "failed"]
    /\ UNCHANGED <<storage, ctx, cached, rec, loaded, state, hook, log, mem, session, lastResult>>

\* await cl.recognize(context) resolved:
\*   if (result) { cl.SendResult(result) }
RecognizeReturn(t, result) ==
    /\ pc[t] = "recognize"
    /\ hook[t] = NoHook
    /\ log' = [log EXCEPT ![t] = IF result THEN Append(@, Ev("SendResult", MsgResult)) ELSE @]
    /\ pc' = [pc EXCEPT ![t] = "save"]
    /\ UNCHANGED <<storage, ctx, cached, rec, loaded, state, hook, mem, session, lastResult>>

\* await cl.recognize(context) rejected: the handler throws.
RecognizeFail(t) ==
    /\ pc[t] = "recognize"
    /\ hook[t] = NoHook
    /\ pc' = [pc EXCEPT ![t] = "failed"]
    /\ UNCHANGED <<storage, ctx, cached, rec, loaded, state, hook, log, mem, session, lastResult>>

\* ------------------------------------------------------- specification
\* The steps of the program with tasks T, conversations C, activity texts X
\* and entity values V.
NextOn(T, C, X, V) ==
    \/ \E t \in T, c \in C, ty \in ActivityTypes, tx \in X,
          tr \in BOOLEAN, avail \in BOOLEAN : ProcessActivity(t, c, ty, tx, tr, avail)
    \/ \E t \in T, c \in C : SdkRoute(t, c)
    \/ \E t \in T : SdkDone(t)
    \/ \E t \in T : Handler(t)
    \/ \E t \in T : SendDone(t)
    \/ \E t \in T : SendFail(t)
    \/ \E t \in T : EngineStartsSession(t)
    \/ \E t \in T, e \in SessionEndStates, v \in V : EngineEndsSession(t, e, v)
    \/ \E t \in T : OnSessionEndResume(t)
    \/ \E t \in T : OnSessionEndSendFail(t)
    \/ \E t \in T : StartSessionReturn(t)
    \/ \E t \in T : StartSessionFail(t)
    \/ \E t \in T, result \in BOOLEAN : RecognizeReturn(t, result)
    \/ \E t \in T : RecognizeFail(t)
    \/ \E t \in T : SaveChanges(t)
    \/ \E t \in T : Reject(t)

\* Turns processed one after another: a single task serves every request.
Next == NextOn({"t1"}, {"c1"}, Texts, EntityValues)

Spec == Init /\ [][Next]_vars

\* ------------------------------------------------------ overlapping turns
\* Two requests in flight at once: each task runs its handler from one await
\* to the next, and the tasks interleave at those points.
RaceTexts == {"open store", "shop"}

\* The steps of one task serving message activities of conversation c.
TurnStep(t, c) ==
    \/ \E tx \in RaceTexts : ProcessActivity(t, c, "message", tx, FALSE, TRUE)
    \/ Handler(t)
    \/ SendDone(t)
    \/ SendFail(t)
    \/ EngineStartsSession(t)
    \/ EngineEndsSession(t, COMPLETED, "apple")
    \/ OnSessionEndResume(t)
    \/ OnSessionEndSendFail(t)
    \/ StartSessionReturn(t)
    \/ StartSessionFail(t)
    \/ \E result \in BOOLEAN : RecognizeReturn(t, result)
    \/ RecognizeFail(t)
    \/ SaveChanges(t)
    \/ Reject(t)

\* Two overlapping turns of one conversation.
NextSameConversation == TurnStep("t1", "c1") \/ TurnStep("t2", "c1")

SpecSameConversation == Init /\ [][NextSameConversation]_vars

\* Two overlapping turns of two conversations.
NextTwoConversations == TurnStep("t1", "c1") \/ TurnStep("t2", "c2")

SpecTwoConversations == Init /\ [][NextTwoConversations]_vars

\* ============================================================== claims
\* The task is past the first segment of the handler.
Started(t) == pc[t] \in {"recognize", "startSession", "send", "save", "failed"}

\* A turn that local dispatch owns: a message activity, not from the training
\* UI, whose state object was read with usingConversationLearner falsy.
LocalTurn(t) ==
    /\ cached[t]
    /\ ~ctx[t].training
    /\ ~Truthy(loaded[t].usingConversationLearner)
    /\ ctx[t].type = "message"

Commands == {"open store", "close store", "shop", "history"}

Last(l) == l[Len(l)]

\* The session-end callback of the task has just finished (returned or thrown
\* at its await).
EndHookFinished(t) ==
    /\ cached[t]
    /\ log[t] # <<>>
    /\ Last(log[t]).op \in {"OnSessionEndReturn", "OnSessionEndThrow"}

\* C1: right after any Session-End Hook invocation, whatever the terminal
\* classification, usingConversationLearner is false in the state object.
C1_DelegateFalseAfterSessionEnd ==
    \A t \in Turns :
        EndHookFinished(t) => rec[t].usingConversationLearner = JsFalse

\* A session end that is not COMPLETED has reset a flag that was true.
C1_Witness ==
    \E t \in Turns :
        /\ EndHookFinished(t)
        /\ loaded[t].usingConversationLearner = JsTrue
        /\ Ev("OnSessionEnd", "OPEN") = log[t][Len(log[t]) - 1]
        /\ rec[t].usingConversationLearner = JsFalse

\* C2: whenever usingConversationLearner is true, in a state object in use or
\* in storage, a StartSession of the conversation has succeeded and no
\* Session-End Hook has run since.
C2_DelegateOnlyInsideSession ==
    /\ \A t \in Turns :
        (cached[t] /\ rec[t].usingConversationLearner = JsTrue) => session[ctx[t].conv]
    /\ \A c \in Convs :
        storage[c].usingConversationLearner = JsTrue => session[c]

\* C3: a turn from the training UI is given to recognize and to no local
\* command, whatever its text and whatever usingConversationLearner is: the
\* only call of the handler is recognize, the only message is the one the
\* session-end callback sends, storeIsOpen is untouched and
\* usingConversationLearner changes only by a session-end callback.
C3_TrainingTurnGoesToEngine ==
    \A t \in Turns :
        (cached[t] /\ ctx[t].training /\ Started(t)) =>
            /\ Head(log[t]) = Ev("recognize", "")
            /\ CountOp(log[t], "recognize") = 1
            /\ CountOp(log[t], "StartSession") = 0
            /\ \A i \in 1..Len(log[t]) :
                   log[t][i].op = "sendActivity" => log[t][i].arg = MsgThanks
            /\ rec[t].storeIsOpen = loaded[t].storeIsOpen
            /\ \/ rec[t].usingConversationLearner = loaded[t].usingConversationLearner
               \/ CountOp(log[t], "OnSessionEnd") > 0

\* A training turn with a command text and a falsy flag went to recognize.
C3_Witness ==
    \E t \in Turns :
        /\ cached[t] /\ ctx[t].training /\ pc[t] = "save"
        /\ ctx[t].text = "open store"
        /\ ~Truthy(loaded[t].usingConversationLearner)
        /\ log[t] = <<Ev("recognize", ""), Ev("SendResult", MsgResult)>>

\* C4: a local 'shop' turn sets usingConversationLearner to true, calls
\* StartSession once, the session-start callback runs at most once and exactly
\* once when StartSession has returned, and the callback reads the storeIsOpen
\* value the turn loaded from the store.
C4_ShopStartsOneSession ==
    \A t \in Turns :
        (LocalTurn(t) /\ ctx[t].text = "shop" /\ Started(t)) =>
            /\ rec[t].usingConversationLearner = JsTrue
            /\ CountOp(log[t], "StartSession") = 1
            /\ CountOp(log[t], "OnSessionStart") <= 1
            /\ pc[t] \in {"send", "save"} => CountOp(log[t], "OnSessionStart") = 1
            /\ \A i \in 1..Len(log[t]) :
                   log[t][i].op = "OnSessionStart" => log[t][i].arg = loaded[t].storeIsOpen

\* A 'shop' turn completed after 'open store': the callback read true.
C4_Witness ==
    \E t \in Turns :
        /\ LocalTurn(t) /\ ctx[t].text = "shop" /\ pc[t] = "save"
        /\ loaded[t].storeIsOpen = JsTrue
        /\ loaded[t].usingConversationLearner # JsTrue
        /\ log[t] = <<Ev("StartSession", ""), Ev("OnSessionStart", JsTrue),
                      Ev("sendActivity", MsgShop)>>

\* The COMPLETED session-end callback of the task has finished.
CompletedHookFinished(t) ==
    /\ EndHookFinished(t)
    /\ \/ Last(log[t]) = Ev("OnSessionEndThrow", "send")
       \/ /\ Last(log[t]).op = "OnSessionEndReturn"
          /\ log[t][Len(log[t]) - 1] = Ev("sendActivity", MsgThanks)

\* The COMPLETED session-end callback of the task has run to its end.
CompletedHookReturned(t) ==
    /\ EndHookFinished(t)
    /\ Last(log[t]).op = "OnSessionEndReturn"
    /\ log[t][Len(log[t]) - 1] = Ev("sendActivity", MsgThanks)

C6_OtherTextGetsHelp ==
    \A t \in Turns :
        (LocalTurn(t) /\ ctx[t].text \notin Commands /\ Started(t)) =>
            /\ log[t] = <<Ev("sendActivity", MsgHelp)>>
            /\ rec[t] = loaded[t]

\* A case variant of a command got the help message.
C6_Witness ==
    \E t \in Turns :
        /\ LocalTurn(t) /\ ctx[t].text = "Shop" /\ pc[t] = "save"
        /\ loaded[t].storeIsOpen = JsTrue
        /\ log[t] = <<Ev("sendActivity", MsgHelp)>>

\* C7: a local 'open store' turn sets storeIsOpen to true and sends the open
\* confirmation, a local 'close store' turn sets it to false and sends the
\* close confirmation; the other fields keep their loaded values.
C7_OpenCloseStore ==
    \A t \in Turns :
        /\ (LocalTurn(t) /\ ctx[t].text = "open store" /\ Started(t)) =>
              /\ rec[t] = [loaded[t] EXCEPT !.storeIsOpen = JsTrue]
              /\ log[t] = <<Ev("sendActivity", MsgOpen)>>
        /\ (LocalTurn(t) /\ ctx[t].text = "close store" /\ Started(t)) =>
              /\ rec[t] = [loaded[t] EXCEPT !.storeIsOpen = JsFalse]
              /\ log[t] = <<Ev("sendActivity", MsgClosed)>>

\* An open store was closed, with a purchase on record.
C7_Witness ==
    \E t \in Turns :
        /\ LocalTurn(t) /\ ctx[t].text = "close store" /\ pc[t] = "save"
        /\ loaded[t].storeIsOpen = JsTrue
        /\ loaded[t].purchasedItem = "apple"
        /\ rec[t].storeIsOpen = JsFalse

\* The step runs the session-start callback in task t.
StartHookStep(t) ==
    CountOp(log'[t], "OnSessionStart") > CountOp(log[t], "OnSessionStart")

\* C8: a run of the Session-Start Hook changes no state object and nothing in
\* storage.
C8_StartHookWritesNoState ==
    [][\A t \in Turns : StartHookStep(t) => (rec' = rec /\ storage' = storage)]_vars

\* The callback ran on a state object with both flags set.
C8_Witness ==
    \E t \in Turns :
        /\ cached[t]
        /\ log[t] # <<>> /\ Last(log[t]) = Ev("OnSessionStart", JsTrue)
        /\ rec[t].storeIsOpen = JsTrue
        /\ rec[t].usingConversationLearner = JsTrue
        /\ mem[ctx[t].conv] = JsTrue

\* C9 as stated: after the Session-Start Hook the "isOpen" entity equals
\* storeIsOpen when the state object holds true or false, and is unset when
\* it holds no value.
C9_Original ==
    \A t \in Turns :
        (log[t] # <<>> /\ Last(log[t]).op = "OnSessionStart") =>
            IF Last(log[t]).arg \in {JsTrue, JsFalse}
            THEN mem[ctx[t].conv] = Last(log[t]).arg
            ELSE mem[ctx[t].conv] = Undefined

\* C9 amended: the Session-Start Hook sets the "isOpen" entity to true when
\* storeIsOpen is true, and otherwise (false, no value, no state object)
\* leaves the entity as it was.
C9_StartHookCopiesOnlyTrue ==
    [][\A t \in Turns : StartHookStep(t) =>
          mem'[ctx[t].conv] =
              IF cached[t] /\ rec[t].storeIsOpen = JsTrue
              THEN JsTrue ELSE mem[ctx[t].conv]]_vars

\* The callback ran after 'close store' and the entity stayed unset.
C9_Witness ==
    \E t \in Turns :
        /\ cached[t]
        /\ log[t] # <<>> /\ Last(log[t]) = Ev("OnSessionStart", JsFalse)
        /\ rec[t].storeIsOpen = JsFalse
        /\ mem[ctx[t].conv] = Undefined

\* C10: a turn whose context holds no state object fails at once: it makes no
\* call and sends nothing, storage and state objects stay as they are, and
\* the failed task returns to idle, where the next turn can start.
C10_StateUnavailableAbortsTurn ==
    /\ [](\A t \in Turns :
            (~cached[t] /\ pc[t] \notin {"idle", "handler", "sdk"}) =>
                (pc[t] = "failed" /\ log[t] = <<>>))
    /\ [][\A t \in Turns :
            (~cached[t] /\ pc[t] \in {"handler", "failed"} /\ pc'[t] # pc[t]) =>
                /\ storage' = storage
                /\ rec' = rec
                /\ pc[t] = "failed" => pc'[t] = "idle"]_vars

\* A training turn without a state object failed, with a record in storage.
C10_Witness ==
    \E t \in Turns :
        /\ ~cached[t] /\ pc[t] = "failed"
        /\ ctx[t].training /\ ctx[t].text = "shop"
        /\ storage[ctx[t].conv].usingConversationLearner = JsTrue
        /\ log[t] = <<>>

\* A turn the engine owns because the flag was set: not from the training UI,
\* state object read with usingConversationLearner truthy.
DelegateTurn(t) ==
    /\ cached[t]
    /\ ~ctx[t].training
    /\ Truthy(loaded[t].usingConversationLearner)

\* The handler made no call of a local command: no StartSession, and no
\* message but the one the session-end callback sends.
NoLocalCall(l) ==
    /\ CountOp(l, "StartSession") = 0
    /\ \A i \in 1..Len(l) : l[i].op = "sendActivity" => l[i].arg = MsgThanks

\* C11: a turn not from the training UI that finds usingConversationLearner
\* true goes to recognize, once, and to no local command whatever its text
\* (no local reply, no StartSession, storeIsOpen untouched); and in every turn
\* recognize is called at most once, exactly when the training or the flag
\* branch owns the turn, and then no local command runs.
C11_DelegateTurnGoesToEngine ==
    \A t \in Turns :
        /\ (DelegateTurn(t) /\ Started(t)) =>
              /\ Head(log[t]) = Ev("recognize", "")
              /\ rec[t].storeIsOpen = loaded[t].storeIsOpen
        /\ (cached[t] /\ Started(t)) =>
              /\ CountOp(log[t], "recognize") <= 1
              /\ CountOp(log[t], "recognize") = 1 <=>
                    (ctx[t].training \/ Truthy(loaded[t].usingConversationLearner))
              /\ CountOp(log[t], "recognize") = 1 => NoLocalCall(log[t])

\* A 'close store' message in delegate mode went to recognize; the store
\* stayed open.
C11_Witness ==
    \E t \in Turns :
        /\ DelegateTurn(t) /\ pc[t] = "save"
        /\ ctx[t].type = "message" /\ ctx[t].text = "close store"
        /\ loaded[t].storeIsOpen = JsTrue /\ rec[t].storeIsOpen = JsTrue
        /\ log[t] = <<Ev("recognize", "")>>

\* The calls of a completed local 'shop' turn, in order.
ShopCalls(t) ==
    <<Ev("StartSession", ""), Ev("OnSessionStart", loaded[t].storeIsOpen),
      Ev("sendActivity", MsgShop)>>

\* C12: in a local 'shop' turn the flag is set first, then StartSession is
\* called, the session-start callback runs with the flag already true, and
\* only when StartSession has returned is the confirmation sent: the calls
\* are always a prefix of StartSession, callback, confirmation; the
\* confirmation is absent while StartSession is pending and is not sent when
\* StartSession fails.
C12_ShopStepsInOrder ==
    /\ [](\A t \in Turns :
            (LocalTurn(t) /\ ctx[t].text = "shop" /\ Started(t)) =>
                /\ rec[t].usingConversationLearner = JsTrue
                /\ Len(log[t]) \in 1..3
                /\ log[t] = SubSeq(ShopCalls(t), 1, Len(log[t]))
                /\ pc[t] = "startSession" => Len(log[t]) <= 2
                /\ pc[t] \in {"send", "save"} => Len(log[t]) = 3)
    /\ [][\A t \in Turns :
            /\ (pc[t] = "startSession" /\ StartHookStep(t)) =>
                  rec[t].usingConversationLearner = JsTrue
            /\ (pc[t] = "startSession" /\ pc'[t] = "failed") => log'[t] = log[t]
            /\ (pc[t] = "failed" /\ pc'[t] # "idle") => log'[t] = log[t]]_vars

\* StartSession failed after the callback had run: no confirmation was sent.
C12_Witness ==
    \E t \in Turns :
        /\ LocalTurn(t) /\ ctx[t].text = "shop" /\ pc[t] = "failed"
        /\ rec[t].usingConversationLearner = JsTrue
        /\ log[t] = <<Ev("StartSession", ""), Ev("OnSessionStart", JsTrue)>>

\* The COMPLETED session-end callback of the task is suspended at its send,
\* or that send has failed in this turn.
EndHookSendPendingOrFailed(t) ==
    \/ hook[t] # NoHook
    \/ \E i \in 1..Len(log[t]) : log[t][i] = Ev("OnSessionEndThrow", "send")

\* C13: in a COMPLETED session end the flag is reset before the closing
\* acknowledgment is sent: while that send is pending, at the moment it
\* fails, and for the rest of the turn after it failed,
\* usingConversationLearner is false in the state object.
C13_ResetBeforeFailingSend ==
    \A t \in Turns :
        (cached[t] /\ EndHookSendPendingOrFailed(t)) =>
            rec[t].usingConversationLearner = JsFalse

\* The acknowledgment failed in a delegate turn: the flag that was loaded
\* true is false, and the result was not stored.
C13_Witness ==
    \E t \in Turns :
        /\ DelegateTurn(t) /\ pc[t] = "save"
        /\ loaded[t].usingConversationLearner = JsTrue
        /\ Ev("OnSessionEndThrow", "send") = log[t][Len(log[t])]
        /\ rec[t].usingConversationLearner = JsFalse
        /\ rec[t].purchasedItem = loaded[t].purchasedItem

\* The step runs the session-end callback in task t.
EndHookStep(t) ==
    CountOp(log'[t], "OnSessionEnd") > CountOp(log[t], "OnSessionEnd")

\* C14: a Session-End Hook invoked with a context that holds no state object
\* throws at once and stops there: it sends nothing, changes no state object
\* and nothing in storage, suspends nowhere, and the engine's task goes on
\* (it can end, after which the slot takes the next turn).
C14_EndHookWithoutStateThrows ==
    /\ [][\A t \in Turns :
            (EndHookStep(t) /\ ~cached[t]) =>
                /\ log'[t] = log[t] \o <<Ev("OnSessionEnd", log'[t][Len(log[t]) + 1].arg),
                                          Ev("OnSessionEndThrow", "no state")>>
                /\ rec' = rec
                /\ storage' = storage
                /\ hook' = hook
                /\ pc' = pc]_vars
    /\ [](\A t \in Turns :
            (~cached[t] /\ pc[t] = "sdk") =>
                /\ hook[t] = NoHook
                /\ Sent(log[t]) = <<>>
                /\ ENABLED SdkDone(t))

\* The callback threw for a COMPLETED session end while storage holds a
\* record of the conversation in delegate mode.
C14_Witness ==
    \E t \in Turns :
        /\ ~cached[t] /\ pc[t] = "sdk"
        /\ log[t] = <<Ev("OnSessionEnd", COMPLETED), Ev("OnSessionEndThrow", "no state")>>
        /\ storage[ctx[t].conv].usingConversationLearner = JsTrue

\* C15: an activity that is not a message goes through the ownership tests:
\* from the training UI or with the flag set it is given to recognize;
\* otherwise the handler returns at once, having made no call, sent nothing
\* and changed nothing in the state object, whatever the text.
C15_NonMessageActivity ==
    \A t \in Turns :
        (cached[t] /\ ctx[t].type # "message" /\ Started(t)) =>
            IF ctx[t].training \/ Truthy(loaded[t].usingConversationLearner)
            THEN Head(log[t]) = Ev("recognize", "")
            ELSE /\ pc[t] = "save"
                 /\ log[t] = <<>>
                 /\ rec[t] = loaded[t]

\* A non-message activity with the text 'shop' was ignored.
C15_Witness ==
    \E t \in Turns :
        /\ cached[t] /\ ctx[t].type = "conversationUpdate" /\ ctx[t].text = "shop"
        /\ ~ctx[t].training /\ loaded[t].usingConversationLearner = JsFalse
        /\ loaded[t].storeIsOpen = JsTrue
        /\ pc[t] = "save" /\ log[t] = <<>> /\ rec[t] = loaded[t]

\* C18 as stated: with turns processed one after another, StartSession is
\* called only in a local 'shop' turn, and never while a session of the
\* conversation that a StartSession began has not been ended by a
\* Session-End Hook.
C18_Original ==
    \A t \in Turns :
        /\ CountOp(log[t], "StartSession") > 0 => (LocalTurn(t) /\ ctx[t].text = "shop")
        /\ pc[t] = "startSession" => ~session[ctx[t].conv]

\* C18 amended: with turns processed one after another, StartSession is
\* called only in a local 'shop' turn, once; the stored flag becomes true only
\* by saving a 'shop' turn whose StartSession returned, while it is stored
\* true no turn calls StartSession, and it stops being true only by saving a
\* turn in which a Session-End Hook ran.
C18_NoStartWhileFlagStored ==
    /\ [](\A t \in Turns :
            /\ CountOp(log[t], "StartSession") > 0 =>
                  /\ LocalTurn(t) /\ ctx[t].text = "shop"
                  /\ CountOp(log[t], "StartSession") = 1
            /\ (cached[t] /\ Started(t)
                  /\ storage[ctx[t].conv].usingConversationLearner = JsTrue) =>
                  CountOp(log[t], "StartSession") = 0)
    /\ [][\A c \in Convs :
            /\ (storage[c].usingConversationLearner # JsTrue
                  /\ storage'[c].usingConversationLearner = JsTrue) =>
                  \E t \in Turns : /\ pc[t] = "save" /\ ctx[t].conv = c
                                   /\ log[t] = ShopCalls(t)
            /\ (storage[c].usingConversationLearner = JsTrue
                  /\ storage'[c].usingConversationLearner # JsTrue) =>
                  \E t \in Turns : /\ pc[t] = "save" /\ ctx[t].conv = c
                                   /\ CountOp(log[t], "OnSessionEnd") > 0]_vars

\* A later 'shop' message, with the session running and the flag stored, went
\* to recognize.
C18_Witness ==
    \E t \in Turns :
        /\ DelegateTurn(t) /\ pc[t] = "save"
        /\ ctx[t].type = "message" /\ ctx[t].text = "shop"
        /\ session[ctx[t].conv]
        /\ storage[ctx[t].conv].usingConversationLearner = JsTrue
        /\ log[t] = <<Ev("recognize", ""), Ev("SendResult", MsgResult)>>

\* The record of its conversation that another turn stored since task t
\* loaded its copy differs, in field f, from both what t loaded and what t
\* is about to store.
StaleIn(t, f) ==
    /\ storage[ctx[t].conv][f] # loaded[t][f]
    /\ storage[ctx[t].conv][f] # rec[t][f]

\* C16: turns of one conversation are not serialized: each turn keeps the
\* copy it loaded at its start, and the save after the turn stores that whole
\* copy whenever the turn changed it, whatever another turn stored in the
\* meantime, so the other turn's update is lost.
C16_SaveOverwritesWithOwnCopy ==
    [][\A t \in Turns :
         /\ (pc[t] \notin {"idle", "handler"} /\ pc'[t] # "idle") =>
               loaded'[t] = loaded[t]
         /\ (pc[t] = "save" /\ pc'[t] = "idle" /\ rec[t] # loaded[t]) =>
               storage'[ctx[t].conv] = rec[t]]_vars

\* A 'shop' turn is about to store its copy with usingConversationLearner
\* true over a record in which a Session-End Hook of the other turn reset the
\* flag after the session had started.
C16_Witness ==
    \E t \in Turns :
        /\ pc[t] = "save" /\ rec[t] # loaded[t]
        /\ log[t] = ShopCalls(t)
        /\ rec[t].usingConversationLearner = JsTrue
        /\ storage[ctx[t].conv].usingConversationLearner = JsFalse
        /\ StaleIn(t, "usingConversationLearner")
        /\ ~session[ctx[t].conv]

\* C17 as stated: a turn that is resumed after a suspension point while the
\* module-level binding refers to the state object of the other turn (of
\* another conversation) mutates that object.
C17_Original ==
    [][\A t, u \in Turns :
         (/\ t # u /\ state = u /\ cached[u] /\ ctx[t].conv # ctx[u].conv
          /\ pc[t] \in {"recognize", "startSession", "send"} /\ pc'[t] # pc[t]) =>
             rec'[u] # rec[u]]_vars

\* C17 amended: the module-level binding is reassigned by other turns while a
\* turn is suspended, but it is assigned and used only in the first segment
\* of a handler, where it refers to the turn's own state object; every state
\* object is read and written only by steps of its own turn.
C17_TurnsTouchOwnRecord ==
    /\ [][\A t \in Turns :
            (pc[t] = "handler" /\ pc'[t] # "handler") =>
               /\ state' = t
               /\ \A u \in Turns \ {t} : rec'[u] = rec[u]]_vars
    /\ [][\A u \in Turns :
            rec'[u] # rec[u] => (pc'[u] # pc[u] \/ log'[u] # log[u])]_vars

\* The Session-End Hook of one turn resumed after its awaited send and stored
\* the purchased item while the binding referred to the state object of the
\* other conversation's turn, which is left without it.
C17_Witness ==
    \E t, u \in Turns :
        /\ t # u /\ state = u /\ cached[u] /\ pc[u] # "idle"
        /\ ctx[t].conv # ctx[u].conv
        /\ log[t] # <<>> /\ Last(log[t]) = Ev("OnSessionEndReturn", "")
        /\ rec[t].purchasedItem = "apple"
        /\ rec[u].purchasedItem = Undefined

====
